---- MODULE Spec2Model ----
(***************************************************************************)
(* Model of the two signaling servers of the repository:                   *)
(*   - the mentoria server (src/unnamed/part_000): one pre-provisioned     *)
(*     room, access control by mentor approval or invitation;              *)
(*   - the ad-hoc room server (src/server.js): rooms created on demand,    *)
(*     owner controls, rooms deleted when empty.                           *)
(* Each socket.io event handler runs to completion, so each handler is one *)
(* action.  The variable program says which of the two servers is running. *)
(***************************************************************************)
EXTENDS Integers, FiniteSets, Sequences, TLC

\* ------------------------------------------------------------------ bounds
NumSockets == 2
NumUsers == 2
MaxRooms == 2
MaxSteps == 4
\* the most participants a room of the ad-hoc server takes: 20 in the code
\* (server.js:172), scaled down so that a full room is within reach
RoomCapacity == 1

\* --------------------------------------------------------------- constants
Null == 0
defaultMentoriaRoomId == 1
UnknownRoomId == 9

Sockets == 1..NumSockets
Users == 1..NumUsers
NameSeq == <<"n1", "n2">>
DisplayNames == {NameSeq[i] : i \in DOMAIN NameSeq}
AdhocRoomIds == 1..MaxRooms
MRoomInputs == {defaultMentoriaRoomId, UnknownRoomId, Null}
ARoomInputs == AdhocRoomIds \cup {Null}
UserInputs == Users \cup {Null}
\* opaque payloads (sdp, candidate, messageText): absent or present
PayloadInputs == {"", "payload"}

VARIABLES program, crashed, sockets, onlineUsers, mentoriaRooms, rooms,
          nextRoomId, steps

vars == <<program, crashed, sockets, onlineUsers, mentoriaRooms, rooms,
          nextRoomId, steps>>

\* ------------------------------------------------- JavaScript object helpers
Has(obj, k) == k \in DOMAIN obj
Put(obj, k, v) == [x \in (DOMAIN obj) \cup {k} |-> IF x = k THEN v ELSE obj[x]]
Del(obj, k) == [x \in (DOMAIN obj) \ {k} |-> obj[x]]
EmptyObj == [x \in {} |-> Null]

\* ------------------------------------------------------- transport (socket.io)
FreshSocket == [state |-> "fresh", userId |-> Null, isMentor |-> FALSE,
                currentRoomId |-> Null, rooms |-> {}]

Msg(to, event, user, users, text) ==
    [to |-> to, event |-> event, user |-> user, users |-> users, text |-> text]

\* The state a handler works on; emitted collects what the handler delivers.
Cur == [sockets |-> sockets, onlineUsers |-> onlineUsers,
        mentoriaRooms |-> mentoriaRooms, rooms |-> rooms, emitted |-> {},
        thrown |-> FALSE]

IsOpen(st, sid) == sid \in Sockets /\ st.sockets[sid].state = "open"

\* socket.emit(event, payload): delivered when the socket is connected
SocketEmit(st, s, event, user, users, text) ==
    IF IsOpen(st, s)
    THEN [st EXCEPT !.emitted = @ \cup {Msg(s, event, user, users, text)}]
    ELSE st

\* io.to(socketId).emit: every socket is in the room named by its own id
IoToSocket(st, sid, event, user, users, text) ==
    SocketEmit(st, sid, event, user, users, text)

\* io.to(roomId).emit: every connected socket tagged with roomId
IoToRoom(st, roomId, event, user, users, text) ==
    [st EXCEPT !.emitted = @ \cup
        {Msg(s, event, user, users, text) :
            s \in {x \in Sockets : IsOpen(st, x) /\ roomId \in st.sockets[x].rooms}}]

\* socket.to(roomId).emit: as io.to(roomId), except the sender
SocketToRoom(st, sender, roomId, event, user, users, text) ==
    [st EXCEPT !.emitted = @ \cup
        {Msg(s, event, user, users, text) :
            s \in {x \in Sockets : x # sender /\ IsOpen(st, x)
                                    /\ roomId \in st.sockets[x].rooms}}]

\* io.emit: every connected socket
IoEmit(st, event, user, users, text) ==
    [st EXCEPT !.emitted = @ \cup
        {Msg(s, event, user, users, text) : s \in {x \in Sockets : IsOpen(st, x)}}]

\* io.sockets.sockets.get(socketId): the socket when connected, else undefined
SocketsGet(st, sid) == IF IsOpen(st, sid) THEN sid ELSE Null

SocketJoin(st, s, roomId) == [st EXCEPT !.sockets[s].rooms = @ \cup {roomId}]
SocketLeave(st, s, roomId) == [st EXCEPT !.sockets[s].rooms = @ \ {roomId}]

\* An uncaught TypeError: the handler stops where it is
Throw(st) == [st EXCEPT !.thrown = TRUE]

\* ================================================================ mentoria
NewMentoriaRoom == [mentorId |-> Null, participants |-> EmptyObj,
                    pendingRequests |-> EmptyObj, invitedUsers |-> EmptyObj]

broadcastPresenceUpdate(st) ==
    IoEmit(st, "presence_update", Null, DOMAIN st.onlineUsers, "")

broadcastMentoriaRoomParticipants(st, roomId) ==
    IF ~Has(st.mentoriaRooms, roomId) THEN st
    ELSE IoToRoom(st, roomId, "mentoria_room_participants_update", Null,
                  {u \in DOMAIN st.mentoriaRooms[roomId].participants :
                      st.mentoriaRooms[roomId].participants[u].status = "joined"},
                  "")

addUserToMentoriaRoomBody(st, s, roomId, displayName, joinStatus) ==
    LET uid == st.sockets[s].userId
        st1 == SocketJoin(st, s, roomId)
        st2 == [st1 EXCEPT !.mentoriaRooms[roomId].participants =
                    Put(@, uid, [socketId |-> s, displayName |-> displayName,
                                 status |-> "joined"])]
        st3 == [st2 EXCEPT !.sockets[s].currentRoomId = roomId]
        st4 == SocketEmit(st3, s, "mentoria_access_status", Null, {}, joinStatus)
    IN broadcastMentoriaRoomParticipants(st4, roomId)


\* mutant: admit without the already-joined guard
addUserToMentoriaRoom_noguard(st, s, roomId, displayName, joinStatus) ==
    LET uid == st.sockets[s].userId IN
    IF ~Has(st.mentoriaRooms, roomId) \/ uid = Null THEN st
    ELSE addUserToMentoriaRoomBody(st, s, roomId, displayName, joinStatus)

addUserToMentoriaRoom(st, s, roomId, displayName, joinStatus) ==
    LET uid == st.sockets[s].userId IN
    IF ~Has(st.mentoriaRooms, roomId) \/ uid = Null THEN st
    ELSE IF Has(st.mentoriaRooms[roomId].participants, uid)
            /\ st.mentoriaRooms[roomId].participants[uid].status = "joined"
         THEN st
         ELSE addUserToMentoriaRoomBody(st, s, roomId, displayName, joinStatus)

\* mutant: a leave keeps the membership record and marks it as left
removeUserFromMentoriaRoom_tombstone(st, s, roomId) ==
    LET uid == st.sockets[s].userId IN
    IF ~Has(st.mentoriaRooms, roomId) \/ uid = Null
       \/ ~Has(st.mentoriaRooms[roomId].participants, uid)
    THEN st
    ELSE LET st1 == SocketLeave(st, s, roomId)
             st2 == [st1 EXCEPT !.mentoriaRooms[roomId].participants[uid].status = "left"]
             st3 == IF st2.sockets[s].currentRoomId = roomId
                    THEN [st2 EXCEPT !.sockets[s].currentRoomId = Null]
                    ELSE st2
             st4 == broadcastMentoriaRoomParticipants(st3, roomId)
         IN SocketEmit(st4, s, "mentoria_access_status", Null, {}, "not_joined")

removeUserFromMentoriaRoom(st, s, roomId) ==
    LET uid == st.sockets[s].userId IN
    IF ~Has(st.mentoriaRooms, roomId) \/ uid = Null
       \/ ~Has(st.mentoriaRooms[roomId].participants, uid)
    THEN st
    ELSE LET st1 == SocketLeave(st, s, roomId)
             st2 == [st1 EXCEPT !.mentoriaRooms[roomId].participants = Del(@, uid)]
             st3 == IF st2.sockets[s].currentRoomId = roomId
                    THEN [st2 EXCEPT !.sockets[s].currentRoomId = Null]
                    ELSE st2
             st4 == broadcastMentoriaRoomParticipants(st3, roomId)
         IN SocketEmit(st4, s, "mentoria_access_status", Null, {}, "not_joined")

\* ---- handler bodies: each maps the state before the event to the state after

\* mutant: an identity that is already bound keeps its first connection
M_register_user_firstwins(st, s, userId, displayName, isMentor) ==
    IF userId # Null /\ displayName # ""
    THEN LET st1 == IF Has(st.onlineUsers, userId) THEN st
                    ELSE [st EXCEPT !.onlineUsers =
                        Put(@, userId, [socketId |-> s, displayName |-> displayName,
                                        isMentor |-> isMentor, currentRoomId |-> Null])]
             st2 == [st1 EXCEPT !.sockets[s].userId = userId,
                                !.sockets[s].isMentor = isMentor]
             st3 == IF isMentor /\ st2.mentoriaRooms[defaultMentoriaRoomId].mentorId = Null
                    THEN [st2 EXCEPT !.mentoriaRooms[defaultMentoriaRoomId].mentorId = userId]
                    ELSE st2
             st4 == SocketEmit(st3, s, "registration_successful", userId, {}, "")
         IN broadcastPresenceUpdate(st4)
    ELSE SocketEmit(st, s, "registration_failed", Null, {}, "Invalid user data.")

M_register_user(st, s, userId, displayName, isMentor) ==
    IF userId # Null /\ displayName # ""
    THEN LET st1 == [st EXCEPT !.onlineUsers =
                        Put(@, userId, [socketId |-> s, displayName |-> displayName,
                                        isMentor |-> isMentor, currentRoomId |-> Null])]
             st2 == [st1 EXCEPT !.sockets[s].userId = userId,
                                !.sockets[s].isMentor = isMentor]
             st3 == IF isMentor /\ st2.mentoriaRooms[defaultMentoriaRoomId].mentorId = Null
                    THEN [st2 EXCEPT !.mentoriaRooms[defaultMentoriaRoomId].mentorId = userId]
                    ELSE st2
             st4 == SocketEmit(st3, s, "registration_successful", userId, {}, "")
         IN broadcastPresenceUpdate(st4)
    ELSE SocketEmit(st, s, "registration_failed", Null, {}, "Invalid user data.")


\* mutant: the snapshot takes the Directory's connection, not the caller's
M_request_join_dirsocket(st, s, roomId) ==
    LET uid == st.sockets[s].userId IN
    IF uid = Null \/ roomId = Null \/ ~Has(st.onlineUsers, uid) THEN st
    ELSE IF ~Has(st.mentoriaRooms, roomId)
    THEN SocketEmit(st, s, "error_message", Null, {}, "room_not_found")
    ELSE IF Has(st.mentoriaRooms[roomId].participants, uid)
    THEN SocketEmit(st, s, "error_message", Null, {}, "already_in_room_or_pending")
    ELSE LET room == st.mentoriaRooms[roomId]
             st1 == [st EXCEPT !.mentoriaRooms[roomId].pendingRequests =
                        Put(@, uid, [socketId |-> st.onlineUsers[uid].socketId,
                                     displayName |-> st.onlineUsers[uid].displayName])]
             st2 == SocketEmit(st1, s, "mentoria_access_status", Null, {}, "pending_approval")
             mentorSocketId == IF room.mentorId # Null /\ Has(st.onlineUsers, room.mentorId)
                               THEN st.onlineUsers[room.mentorId].socketId
                               ELSE Null
         IN IF mentorSocketId # Null
            THEN IoToSocket(st2, mentorSocketId, "mentoria_join_request_to_mentor",
                            uid, {}, st.onlineUsers[uid].displayName)
            ELSE st2

M_request_join(st, s, roomId) ==
    LET uid == st.sockets[s].userId IN
    IF uid = Null \/ roomId = Null \/ ~Has(st.onlineUsers, uid) THEN st
    ELSE IF ~Has(st.mentoriaRooms, roomId)
    THEN SocketEmit(st, s, "error_message", Null, {}, "room_not_found")
    ELSE IF Has(st.mentoriaRooms[roomId].participants, uid)
    THEN SocketEmit(st, s, "error_message", Null, {}, "already_in_room_or_pending")
    ELSE LET room == st.mentoriaRooms[roomId]
             st1 == [st EXCEPT !.mentoriaRooms[roomId].pendingRequests =
                        Put(@, uid, [socketId |-> s,
                                     displayName |-> st.onlineUsers[uid].displayName])]
             st2 == SocketEmit(st1, s, "mentoria_access_status", Null, {}, "pending_approval")
             mentorSocketId == IF room.mentorId # Null /\ Has(st.onlineUsers, room.mentorId)
                               THEN st.onlineUsers[room.mentorId].socketId
                               ELSE Null
         IN IF mentorSocketId # Null
            THEN IoToSocket(st2, mentorSocketId, "mentoria_join_request_to_mentor",
                            uid, {}, st.onlineUsers[uid].displayName)
            ELSE st2


\* mutant: any authority-capable connection may invite
M_invite_user_anymentor(st, s, roomId, targetUserId) ==
    IF ~st.sockets[s].isMentor \/ roomId = Null \/ targetUserId = Null
       \/ ~Has(st.onlineUsers, targetUserId)
    THEN SocketEmit(st, s, "error_message", Null, {}, "not_allowed_or_user_not_found")
    ELSE IF ~Has(st.mentoriaRooms, roomId)
    THEN SocketEmit(st, s, "error_message", Null, {}, "not_the_mentor")
    ELSE LET uid == st.sockets[s].userId
             st1 == [st EXCEPT !.mentoriaRooms[roomId].invitedUsers =
                        Put(@, targetUserId, uid)]
             targetSocketId == st.onlineUsers[targetUserId].socketId
         IN IF ~Has(st.onlineUsers, uid)
            THEN Throw(st1)
            ELSE IoToSocket(st1, targetSocketId, "mentoria_invitation_received",
                            uid, {}, st.onlineUsers[uid].displayName)

M_invite_user(st, s, roomId, targetUserId) ==
    IF ~st.sockets[s].isMentor \/ roomId = Null \/ targetUserId = Null
       \/ ~Has(st.onlineUsers, targetUserId)
    THEN SocketEmit(st, s, "error_message", Null, {}, "not_allowed_or_user_not_found")
    ELSE IF ~Has(st.mentoriaRooms, roomId)
            \/ st.mentoriaRooms[roomId].mentorId # st.sockets[s].userId
    THEN SocketEmit(st, s, "error_message", Null, {}, "not_the_mentor")
    ELSE LET uid == st.sockets[s].userId
             st1 == [st EXCEPT !.mentoriaRooms[roomId].invitedUsers =
                        Put(@, targetUserId, uid)]
             targetSocketId == st.onlineUsers[targetUserId].socketId
         IN IF ~Has(st.onlineUsers, uid)
            THEN Throw(st1)
            ELSE IoToSocket(st1, targetSocketId, "mentoria_invitation_received",
                            uid, {}, st.onlineUsers[uid].displayName)

M_accept_invitation(st, s, roomId, inviterId) ==
    LET uid == st.sockets[s].userId IN
    IF uid = Null \/ roomId = Null THEN st
    ELSE IF ~Has(st.mentoriaRooms, roomId)
            \/ ~Has(st.mentoriaRooms[roomId].invitedUsers, uid)
            \/ st.mentoriaRooms[roomId].invitedUsers[uid] # inviterId
    THEN SocketEmit(st, s, "error_message", Null, {}, "invalid_invitation")
    ELSE LET st1 == [st EXCEPT !.mentoriaRooms[roomId].invitedUsers = Del(@, uid)]
         IN IF ~Has(st.onlineUsers, uid)
            THEN Throw(st1)
            ELSE addUserToMentoriaRoom(st1, s, roomId,
                                       st.onlineUsers[uid].displayName, "invited_joined")


\* mutant: approve without the pending-record check, admitting the target's
\* Directory connection
M_approve_request_nopending(st, s, roomId, targetUserId) ==
    IF ~st.sockets[s].isMentor \/ roomId = Null \/ targetUserId = Null
    THEN SocketEmit(st, s, "error_message", Null, {}, "not_allowed")
    ELSE IF ~Has(st.mentoriaRooms, roomId)
            \/ st.mentoriaRooms[roomId].mentorId # st.sockets[s].userId
    THEN SocketEmit(st, s, "error_message", Null, {}, "request_not_found_or_not_mentor")
    ELSE LET st1 == [st EXCEPT !.mentoriaRooms[roomId].pendingRequests =
                        Del(@, targetUserId)]
             targetSocket == IF Has(st.onlineUsers, targetUserId)
                             THEN SocketsGet(st1, st.onlineUsers[targetUserId].socketId)
                             ELSE Null
         IN IF targetSocket # Null
            THEN addUserToMentoriaRoom(st1, targetSocket, roomId,
                                       st.onlineUsers[targetUserId].displayName, "approved")
            ELSE st1

M_approve_request(st, s, roomId, targetUserId) ==
    IF ~st.sockets[s].isMentor \/ roomId = Null \/ targetUserId = Null
    THEN SocketEmit(st, s, "error_message", Null, {}, "not_allowed")
    ELSE IF ~Has(st.mentoriaRooms, roomId)
            \/ st.mentoriaRooms[roomId].mentorId # st.sockets[s].userId
            \/ ~Has(st.mentoriaRooms[roomId].pendingRequests, targetUserId)
    THEN SocketEmit(st, s, "error_message", Null, {}, "request_not_found_or_not_mentor")
    ELSE LET req == st.mentoriaRooms[roomId].pendingRequests[targetUserId]
             st1 == [st EXCEPT !.mentoriaRooms[roomId].pendingRequests =
                        Del(@, targetUserId)]
             targetSocket == SocketsGet(st1, req.socketId)
         IN IF targetSocket # Null
            THEN addUserToMentoriaRoom(st1, targetSocket, roomId, req.displayName, "approved")
            ELSE st1

M_deny_request(st, s, roomId, targetUserId) ==
    IF ~st.sockets[s].isMentor \/ roomId = Null \/ targetUserId = Null
    THEN SocketEmit(st, s, "error_message", Null, {}, "not_allowed")
    ELSE IF ~Has(st.mentoriaRooms, roomId)
            \/ st.mentoriaRooms[roomId].mentorId # st.sockets[s].userId
            \/ ~Has(st.mentoriaRooms[roomId].pendingRequests, targetUserId)
    THEN SocketEmit(st, s, "error_message", Null, {}, "request_not_found_or_not_mentor")
    ELSE LET targetSocketId == st.mentoriaRooms[roomId].pendingRequests[targetUserId].socketId
             st1 == [st EXCEPT !.mentoriaRooms[roomId].pendingRequests =
                        Del(@, targetUserId)]
         IN IoToSocket(st1, targetSocketId, "mentoria_access_status", Null, {}, "denied")

M_leave_room(st, s, roomId) ==
    IF st.sockets[s].userId # Null /\ roomId # Null
    THEN removeUserFromMentoriaRoom(st, s, roomId)
    ELSE st

\* mutant: the introduction round without the membership check on the caller
M_user_ready_for_webrtc_nocheck(st, s, roomId) ==
    LET uid == st.sockets[s].userId IN
    IF uid = Null \/ roomId = Null THEN st
    ELSE IF ~Has(st.mentoriaRooms, roomId)
    THEN SocketEmit(st, s, "error_message", Null, {}, "not_in_room")
    ELSE LET room == st.mentoriaRooms[roomId]
             others == {p \in DOMAIN room.participants :
                           p # uid /\ room.participants[p].status = "joined"}
             st1 == [st EXCEPT !.emitted = @
                        \cup (IF IsOpen(st, s)
                              THEN {Msg(s, "mentoria_initiate_webrtc_with_peer", p, {}, "") :
                                       p \in others}
                              ELSE {})
                        \cup {Msg(room.participants[p].socketId,
                                  "mentoria_initiate_webrtc_with_peer", uid, {}, "") :
                                 p \in {q \in others :
                                           IsOpen(st, room.participants[q].socketId)}}]
         IN broadcastMentoriaRoomParticipants(st1, roomId)

M_user_ready_for_webrtc(st, s, roomId) ==
    LET uid == st.sockets[s].userId IN
    IF uid = Null \/ roomId = Null THEN st
    ELSE IF ~Has(st.mentoriaRooms, roomId)
            \/ ~Has(st.mentoriaRooms[roomId].participants, uid)
            \/ st.mentoriaRooms[roomId].participants[uid].status # "joined"
    THEN SocketEmit(st, s, "error_message", Null, {}, "not_in_room")
    ELSE LET room == st.mentoriaRooms[roomId]
             others == {p \in DOMAIN room.participants :
                           p # uid /\ room.participants[p].status = "joined"}
             st1 == [st EXCEPT !.emitted = @
                        \cup (IF IsOpen(st, s)
                              THEN {Msg(s, "mentoria_initiate_webrtc_with_peer", p, {}, "") :
                                       p \in others}
                              ELSE {})
                        \cup {Msg(room.participants[p].socketId,
                                  "mentoria_initiate_webrtc_with_peer", uid, {}, "") :
                                 p \in {q \in others :
                                           IsOpen(st, room.participants[q].socketId)}}]
         IN broadcastMentoriaRoomParticipants(st1, roomId)

\* mutant: a relay whose target is not in the Directory is reported to the sender
M_relay_reporting(st, s, event, targetUserId, payload) ==
    IF st.sockets[s].userId = Null \/ targetUserId = Null \/ payload = "" THEN st
    ELSE LET targetSocketId == IF Has(st.onlineUsers, targetUserId)
                               THEN st.onlineUsers[targetUserId].socketId ELSE Null
         IN IF targetSocketId # Null
            THEN IoToSocket(st, targetSocketId, event, st.sockets[s].userId, {}, payload)
            ELSE SocketEmit(st, s, "error_message", Null, {}, "target_not_found")

\* the three connection-setup relays differ in the event name only
M_relay(st, s, event, targetUserId, payload) ==
    IF st.sockets[s].userId = Null \/ targetUserId = Null \/ payload = "" THEN st
    ELSE LET targetSocketId == IF Has(st.onlineUsers, targetUserId)
                               THEN st.onlineUsers[targetUserId].socketId ELSE Null
         IN IF targetSocketId # Null
            THEN IoToSocket(st, targetSocketId, event, st.sockets[s].userId, {}, payload)
            ELSE st

M_webrtc_offer(st, s, targetUserId, sdp) ==
    M_relay(st, s, "webrtc_offer", targetUserId, sdp)

M_webrtc_answer(st, s, targetUserId, sdp) ==
    M_relay(st, s, "webrtc_answer", targetUserId, sdp)

M_webrtc_ice_candidate(st, s, targetUserId, candidate) ==
    M_relay(st, s, "webrtc_ice_candidate", targetUserId, candidate)

M_chat_message(st, s, roomId, messageText) ==
    LET uid == st.sockets[s].userId IN
    IF uid = Null \/ roomId = Null \/ ~Has(st.mentoriaRooms, roomId) \/ messageText = ""
    THEN st
    ELSE LET room == st.mentoriaRooms[roomId] IN
         IF Has(room.participants, uid) /\ room.participants[uid].status = "joined"
         THEN [st EXCEPT !.emitted = @ \cup
                 {Msg(room.participants[p].socketId, "chat_message", uid, {}, messageText) :
                     p \in {q \in DOMAIN room.participants :
                               /\ room.participants[q].status = "joined"
                               /\ IsOpen(st, room.participants[q].socketId)}}]
         ELSE st

M_end_call_1x1(st, s, targetUserId) ==
    IF st.sockets[s].userId = Null \/ targetUserId = Null THEN st
    ELSE LET targetSocketId == IF Has(st.onlineUsers, targetUserId)
                               THEN st.onlineUsers[targetUserId].socketId ELSE Null
         IN IF targetSocketId # Null
            THEN IoToSocket(st, targetSocketId, "call_ended_notification",
                            st.sockets[s].userId, {}, "")
            ELSE st

\* socket.io has already taken the socket out of its rooms when "disconnect" fires
Closed(st, s) == [st EXCEPT !.sockets[s].state = "closed", !.sockets[s].rooms = {}]

\* mutant: the disconnect also withdraws the identity's request and invitation
M_disconnect_clearing(st0, s) ==
    LET st == Closed(st0, s)
        uid == st.sockets[s].userId IN
    IF uid = Null THEN st
    ELSE LET found == {r \in DOMAIN st.mentoriaRooms :
                          Has(st.mentoriaRooms[r].participants, uid)}
             st1 == IF found # {}
                    THEN removeUserFromMentoriaRoom(st, s, CHOOSE r \in found : TRUE)
                    ELSE st
             st2 == [st1 EXCEPT !.onlineUsers = Del(@, uid),
                                !.mentoriaRooms = [r \in DOMAIN @ |->
                                    [@[r] EXCEPT !.pendingRequests = Del(@, uid),
                                                 !.invitedUsers = Del(@, uid)]]]
         IN broadcastPresenceUpdate(st2)

M_disconnect(st0, s) ==
    LET st == Closed(st0, s)
        uid == st.sockets[s].userId IN
    IF uid = Null THEN st
    ELSE LET found == {r \in DOMAIN st.mentoriaRooms :
                          Has(st.mentoriaRooms[r].participants, uid)}
             st1 == IF found # {}
                    THEN removeUserFromMentoriaRoom(st, s, CHOOSE r \in found : TRUE)
                    ELSE st
             st2 == [st1 EXCEPT !.onlineUsers = Del(@, uid)]
         IN broadcastPresenceUpdate(st2)


\* ================================================================== ad-hoc
A_broadcastPresenceUpdate(st) ==
    IoEmit(st, "presence_update", Null, DOMAIN st.onlineUsers, "")

getRoomParticipantDetails(st, roomId) ==
    IF ~Has(st.rooms, roomId) THEN {} ELSE DOMAIN st.rooms[roomId].participants


\* mutant: leave without the removal of the emptied room
leaveRoom_keepempty(st, s, roomId) ==
    LET uid == st.sockets[s].userId IN
    IF ~Has(st.rooms, roomId) \/ ~Has(st.onlineUsers, uid)
       \/ ~Has(st.rooms[roomId].participants, uid)
    THEN st
    ELSE LET st1 == SocketLeave(st, s, roomId)
             st2 == [st1 EXCEPT !.rooms[roomId].participants = Del(@, uid)]
             st3 == [st2 EXCEPT !.onlineUsers[uid].currentRoomId = Null,
                                !.sockets[s].currentRoomId = Null]
             st4 == SocketEmit(st3, s, "left_room_successfully", Null, {}, "")
         IN IoToRoom(st4, roomId, "participant_left", uid, {}, "")

leaveRoom(st, s, roomId) ==
    LET uid == st.sockets[s].userId IN
    IF ~Has(st.rooms, roomId) \/ ~Has(st.onlineUsers, uid)
       \/ ~Has(st.rooms[roomId].participants, uid)
    THEN st
    ELSE LET st1 == SocketLeave(st, s, roomId)
             st2 == [st1 EXCEPT !.rooms[roomId].participants = Del(@, uid)]
             st3 == [st2 EXCEPT !.onlineUsers[uid].currentRoomId = Null,
                                !.sockets[s].currentRoomId = Null]
             st4 == SocketEmit(st3, s, "left_room_successfully", Null, {}, "")
             st5 == IoToRoom(st4, roomId, "participant_left", uid, {}, "")
         IN IF DOMAIN st5.rooms[roomId].participants = {}
            THEN [st5 EXCEPT !.rooms = Del(@, roomId)]
            ELSE st5

\* mutant: the previous room is left before the capacity check
joinRoom_leavefirst(st, s, roomId) ==
    LET uid == st.sockets[s].userId IN
    IF ~Has(st.rooms, roomId) \/ ~Has(st.onlineUsers, uid) THEN st
    ELSE LET cur == st.sockets[s].currentRoomId
             st1 == IF cur # Null /\ cur # roomId THEN leaveRoom(st, s, cur) ELSE st
         IN IF Cardinality(DOMAIN st.rooms[roomId].participants) >= RoomCapacity
            THEN SocketEmit(st1, s, "error_message", Null, {}, "room_full")
            ELSE LET st2 == SocketJoin(st1, s, roomId)
                     st3 == [st2 EXCEPT !.rooms[roomId].participants = Put(@, uid, s)]
                     st4 == [st3 EXCEPT !.onlineUsers[uid].currentRoomId = roomId,
                                        !.sockets[s].currentRoomId = roomId]
                     st5 == SocketEmit(st4, s, "joined_room_successfully", Null,
                                       getRoomParticipantDetails(st4, roomId), "")
                 IN SocketToRoom(st5, s, roomId, "participant_joined", uid, {}, "")

joinRoom(st, s, roomId) ==
    LET uid == st.sockets[s].userId IN
    IF ~Has(st.rooms, roomId) \/ ~Has(st.onlineUsers, uid) THEN st
    ELSE IF Cardinality(DOMAIN st.rooms[roomId].participants) >= RoomCapacity
    THEN SocketEmit(st, s, "error_message", Null, {}, "room_full")
    ELSE LET cur == st.sockets[s].currentRoomId
             st1 == IF cur # Null /\ cur # roomId THEN leaveRoom(st, s, cur) ELSE st
             st2 == SocketJoin(st1, s, roomId)
             st3 == [st2 EXCEPT !.rooms[roomId].participants = Put(@, uid, s)]
             st4 == [st3 EXCEPT !.onlineUsers[uid].currentRoomId = roomId,
                                !.sockets[s].currentRoomId = roomId]
             st5 == SocketEmit(st4, s, "joined_room_successfully", Null,
                               getRoomParticipantDetails(st4, roomId), "")
         IN SocketToRoom(st5, s, roomId, "participant_joined", uid, {}, "")

A_register_user(st, s, userId, displayName) ==
    IF userId # Null /\ displayName # ""
    THEN LET st1 == [st EXCEPT !.onlineUsers =
                        Put(@, userId, [socketId |-> s, displayName |-> displayName,
                                        isMentor |-> FALSE, currentRoomId |-> Null])]
             st2 == [st1 EXCEPT !.sockets[s].userId = userId]
             st3 == A_broadcastPresenceUpdate(st2)
         IN SocketEmit(st3, s, "registration_successful", userId, {}, "")
    ELSE SocketEmit(st, s, "registration_failed", Null, {}, "Invalid user data.")

A_create_room(st, s, roomId) ==
    LET uid == st.sockets[s].userId IN
    IF uid = Null THEN SocketEmit(st, s, "error_message", Null, {}, "not_registered")
    ELSE LET st1 == [st EXCEPT !.rooms =
                        Put(@, roomId, [ownerId |-> uid, participants |-> EmptyObj])]
         IN joinRoom(st1, s, roomId)

A_join_room(st, s, roomId) ==
    IF st.sockets[s].userId = Null
    THEN SocketEmit(st, s, "error_message", Null, {}, "not_registered")
    ELSE IF Has(st.rooms, roomId)
    THEN joinRoom(st, s, roomId)
    ELSE SocketEmit(st, s, "error_message", Null, {}, "room_not_found")

A_leave_room(st, s) ==
    IF st.sockets[s].currentRoomId # Null
    THEN leaveRoom(st, s, st.sockets[s].currentRoomId)
    ELSE st

\* the three connection-setup relays differ in the event name only
A_relay(st, s, event, targetUserId, payload) ==
    LET targetSocketId == IF Has(st.onlineUsers, targetUserId)
                          THEN st.onlineUsers[targetUserId].socketId ELSE Null
    IN IF targetSocketId # Null
       THEN IoToSocket(st, targetSocketId, event, st.sockets[s].userId, {}, payload)
       ELSE st

A_webrtc_offer(st, s, targetUserId, sdp) ==
    A_relay(st, s, "webrtc_offer", targetUserId, sdp)

A_webrtc_answer(st, s, targetUserId, sdp) ==
    A_relay(st, s, "webrtc_answer", targetUserId, sdp)

A_webrtc_ice_candidate(st, s, targetUserId, candidate) ==
    A_relay(st, s, "webrtc_ice_candidate", targetUserId, candidate)

A_chat_message(st, s, roomId, messageText) ==
    LET uid == st.sockets[s].userId IN
    IF uid = Null \/ roomId = Null \/ ~Has(st.rooms, roomId) THEN st
    ELSE IF Has(st.rooms[roomId].participants, uid)
    THEN [st EXCEPT !.emitted = @ \cup
            {Msg(st.rooms[roomId].participants[p], "chat_message", uid, {}, messageText) :
                p \in {q \in DOMAIN st.rooms[roomId].participants :
                          IsOpen(st, st.rooms[roomId].participants[q])}}]
    ELSE st

MentorControlDenied(st, s, roomId) ==
    \/ st.sockets[s].userId = Null
    \/ ~Has(st.rooms, roomId)
    \/ ~Has(st.onlineUsers, st.sockets[s].userId)
    \/ st.rooms[roomId].ownerId # st.sockets[s].userId

A_mute_participant(st, s, roomId, targetUserId) ==
    IF MentorControlDenied(st, s, roomId)
    THEN SocketEmit(st, s, "error_message", Null, {}, "not_allowed")
    ELSE LET targetSocketId == IF Has(st.onlineUsers, targetUserId)
                               THEN st.onlineUsers[targetUserId].socketId ELSE Null
         IN IF targetSocketId # Null /\ Has(st.rooms[roomId].participants, targetUserId)
            THEN IoToSocket(st, targetSocketId, "force_mute", st.sockets[s].userId, {}, "")
            ELSE st

A_remove_participant(st, s, roomId, targetUserId) ==
    IF MentorControlDenied(st, s, roomId)
    THEN SocketEmit(st, s, "error_message", Null, {}, "not_allowed")
    ELSE LET targetSocket == IF Has(st.onlineUsers, targetUserId)
                             THEN SocketsGet(st, st.onlineUsers[targetUserId].socketId)
                             ELSE Null
         IN IF targetSocket # Null /\ Has(st.rooms[roomId].participants, targetUserId)
            THEN leaveRoom(SocketEmit(st, targetSocket, "removed_from_room",
                                      st.sockets[s].userId, {}, ""),
                           targetSocket, roomId)
            ELSE st

A_disconnect(st0, s) ==
    LET st == Closed(st0, s)
        uid == st.sockets[s].userId IN
    IF uid = Null THEN st
    ELSE LET st1 == IF st.sockets[s].currentRoomId # Null
                    THEN leaveRoom(st, s, st.sockets[s].currentRoomId)
                    ELSE st
             st2 == [st1 EXCEPT !.onlineUsers = Del(@, uid)]
         IN A_broadcastPresenceUpdate(st2)

\* ------------------------------------------------------------------ actions
Commit(st) ==
    /\ sockets' = st.sockets
    /\ onlineUsers' = st.onlineUsers
    /\ mentoriaRooms' = st.mentoriaRooms
    /\ rooms' = st.rooms
    /\ crashed' = st.thrown
    /\ steps' = steps + 1

Running(p) == program = p /\ ~crashed /\ steps < MaxSteps

\* Identities and display names are opaque strings that the code only compares
\* for equality, so a registration draws them from the ones the state already
\* holds plus the first one it does not hold.
SeenUsers == (DOMAIN onlineUsers) \cup ({sockets[s].userId : s \in Sockets} \ {Null})
SeenNames ==
    {onlineUsers[u].displayName : u \in DOMAIN onlineUsers}
    \cup UNION {{mentoriaRooms[r].participants[u].displayName :
                    u \in DOMAIN mentoriaRooms[r].participants}
                \cup {mentoriaRooms[r].pendingRequests[u].displayName :
                    u \in DOMAIN mentoriaRooms[r].pendingRequests} :
                r \in DOMAIN mentoriaRooms}
RegisterUserInputs ==
    {Null} \cup {u \in Users : u \in SeenUsers \/ \A v \in Users : v < u => v \in SeenUsers}
RegisterNameInputs ==
    {NameSeq[i] : i \in {k \in DOMAIN NameSeq :
        NameSeq[k] \in SeenNames \/ \A j \in DOMAIN NameSeq : j < k => NameSeq[j] \in SeenNames}}

\* A new connection: socket.io hands out socket ids in the order of connecting.
\* steps counts the client events handled on established connections.
Connect ==
    /\ ~crashed
    /\ \E s \in Sockets :
        /\ sockets[s].state = "fresh"
        /\ \A x \in Sockets : x < s => sockets[x].state # "fresh"
        /\ sockets' = [sockets EXCEPT ![s].state = "open"]
    /\ UNCHANGED <<program, crashed, onlineUsers, mentoriaRooms, rooms, nextRoomId, steps>>

MRegisterUser ==
    /\ Running("mentoria")
    /\ \E s \in Sockets, userId \in RegisterUserInputs, displayName \in RegisterNameInputs,
          isMentor \in BOOLEAN :
        /\ sockets[s].state = "open"
        /\ Commit(M_register_user(Cur, s, userId, displayName, isMentor))
    /\ UNCHANGED <<program, nextRoomId>>

MRequestJoin ==
    /\ Running("mentoria")
    /\ \E s \in Sockets, roomId \in MRoomInputs :
        /\ sockets[s].state = "open"
        /\ Commit(M_request_join(Cur, s, roomId))
    /\ UNCHANGED <<program, nextRoomId>>

MInviteUser ==
    /\ Running("mentoria")
    /\ \E s \in Sockets, roomId \in MRoomInputs,
          targetUserId \in UserInputs :
        /\ sockets[s].state = "open"
        /\ Commit(M_invite_user(Cur, s, roomId, targetUserId))
    /\ UNCHANGED <<program, nextRoomId>>

MAcceptInvitation ==
    /\ Running("mentoria")
    /\ \E s \in Sockets, roomId \in MRoomInputs,
          inviterId \in UserInputs :
        /\ sockets[s].state = "open"
        /\ Commit(M_accept_invitation(Cur, s, roomId, inviterId))
    /\ UNCHANGED <<program, nextRoomId>>

MApproveRequest ==
    /\ Running("mentoria")
    /\ \E s \in Sockets, roomId \in MRoomInputs,
          targetUserId \in UserInputs :
        /\ sockets[s].state = "open"
        /\ Commit(M_approve_request(Cur, s, roomId, targetUserId))
    /\ UNCHANGED <<program, nextRoomId>>

MDenyRequest ==
    /\ Running("mentoria")
    /\ \E s \in Sockets, roomId \in MRoomInputs,
          targetUserId \in UserInputs :
        /\ sockets[s].state = "open"
        /\ Commit(M_deny_request(Cur, s, roomId, targetUserId))
    /\ UNCHANGED <<program, nextRoomId>>

MLeaveRoom ==
    /\ Running("mentoria")
    /\ \E s \in Sockets, roomId \in MRoomInputs :
        /\ sockets[s].state = "open"
        /\ Commit(M_leave_room(Cur, s, roomId))
    /\ UNCHANGED <<program, nextRoomId>>

MUserReadyForWebrtc ==
    /\ Running("mentoria")
    /\ \E s \in Sockets, roomId \in MRoomInputs :
        /\ sockets[s].state = "open"
        /\ Commit(M_user_ready_for_webrtc(Cur, s, roomId))
    /\ UNCHANGED <<program, nextRoomId>>

MWebrtcOffer ==
    /\ Running("mentoria")
    /\ \E s \in Sockets, targetUserId \in UserInputs, sdp \in PayloadInputs :
        /\ sockets[s].state = "open"
        /\ Commit(M_webrtc_offer(Cur, s, targetUserId, sdp))
    /\ UNCHANGED <<program, nextRoomId>>

MWebrtcAnswer ==
    /\ Running("mentoria")
    /\ \E s \in Sockets, targetUserId \in UserInputs, sdp \in PayloadInputs :
        /\ sockets[s].state = "open"
        /\ Commit(M_webrtc_answer(Cur, s, targetUserId, sdp))
    /\ UNCHANGED <<program, nextRoomId>>

MWebrtcIceCandidate ==
    /\ Running("mentoria")
    /\ \E s \in Sockets, targetUserId \in UserInputs, candidate \in PayloadInputs :
        /\ sockets[s].state = "open"
        /\ Commit(M_webrtc_ice_candidate(Cur, s, targetUserId, candidate))
    /\ UNCHANGED <<program, nextRoomId>>

MChatMessage ==
    /\ Running("mentoria")
    /\ \E s \in Sockets, roomId \in MRoomInputs, messageText \in PayloadInputs :
        /\ sockets[s].state = "open"
        /\ Commit(M_chat_message(Cur, s, roomId, messageText))
    /\ UNCHANGED <<program, nextRoomId>>

MEndCall1x1 ==
    /\ Running("mentoria")
    /\ \E s \in Sockets, targetUserId \in UserInputs :
        /\ sockets[s].state = "open"
        /\ Commit(M_end_call_1x1(Cur, s, targetUserId))
    /\ UNCHANGED <<program, nextRoomId>>

MDisconnect ==
    /\ Running("mentoria")
    /\ \E s \in Sockets :
        /\ sockets[s].state = "open"
        /\ Commit(M_disconnect(Cur, s))
    /\ UNCHANGED <<program, nextRoomId>>

ARegisterUser ==
    /\ Running("adhoc")
    /\ \E s \in Sockets, userId \in RegisterUserInputs, displayName \in RegisterNameInputs :
        /\ sockets[s].state = "open"
        /\ Commit(A_register_user(Cur, s, userId, displayName))
    /\ UNCHANGED <<program, nextRoomId>>

ACreateRoom ==
    /\ Running("adhoc")
    /\ nextRoomId <= MaxRooms
    /\ \E s \in Sockets :
        /\ sockets[s].state = "open"
        /\ Commit(A_create_room(Cur, s, nextRoomId))
        /\ nextRoomId' = IF sockets[s].userId = Null THEN nextRoomId ELSE nextRoomId + 1
    /\ UNCHANGED program

AJoinRoom ==
    /\ Running("adhoc")
    /\ \E s \in Sockets, roomId \in ARoomInputs :
        /\ sockets[s].state = "open"
        /\ Commit(A_join_room(Cur, s, roomId))
    /\ UNCHANGED <<program, nextRoomId>>

ALeaveRoom ==
    /\ Running("adhoc")
    /\ \E s \in Sockets :
        /\ sockets[s].state = "open"
        /\ Commit(A_leave_room(Cur, s))
    /\ UNCHANGED <<program, nextRoomId>>

AMuteParticipant ==
    /\ Running("adhoc")
    /\ \E s \in Sockets, roomId \in ARoomInputs, targetUserId \in UserInputs :
        /\ sockets[s].state = "open"
        /\ Commit(A_mute_participant(Cur, s, roomId, targetUserId))
    /\ UNCHANGED <<program, nextRoomId>>

ARemoveParticipant ==
    /\ Running("adhoc")
    /\ \E s \in Sockets, roomId \in ARoomInputs, targetUserId \in UserInputs :
        /\ sockets[s].state = "open"
        /\ Commit(A_remove_participant(Cur, s, roomId, targetUserId))
    /\ UNCHANGED <<program, nextRoomId>>

AWebrtcOffer ==
    /\ Running("adhoc")
    /\ \E s \in Sockets, targetUserId \in UserInputs, sdp \in PayloadInputs :
        /\ sockets[s].state = "open"
        /\ Commit(A_webrtc_offer(Cur, s, targetUserId, sdp))
    /\ UNCHANGED <<program, nextRoomId>>

AWebrtcAnswer ==
    /\ Running("adhoc")
    /\ \E s \in Sockets, targetUserId \in UserInputs, sdp \in PayloadInputs :
        /\ sockets[s].state = "open"
        /\ Commit(A_webrtc_answer(Cur, s, targetUserId, sdp))
    /\ UNCHANGED <<program, nextRoomId>>

AWebrtcIceCandidate ==
    /\ Running("adhoc")
    /\ \E s \in Sockets, targetUserId \in UserInputs, candidate \in PayloadInputs :
        /\ sockets[s].state = "open"
        /\ Commit(A_webrtc_ice_candidate(Cur, s, targetUserId, candidate))
    /\ UNCHANGED <<program, nextRoomId>>

AChatMessage ==
    /\ Running("adhoc")
    /\ \E s \in Sockets, roomId \in ARoomInputs, messageText \in PayloadInputs :
        /\ sockets[s].state = "open"
        /\ Commit(A_chat_message(Cur, s, roomId, messageText))
    /\ UNCHANGED <<program, nextRoomId>>

ADisconnect ==
    /\ Running("adhoc")
    /\ \E s \in Sockets :
        /\ sockets[s].state = "open"
        /\ Commit(A_disconnect(Cur, s))
    /\ UNCHANGED <<program, nextRoomId>>

Init ==
    /\ program \in {"mentoria", "adhoc"}
    /\ crashed = FALSE
    /\ sockets = [s \in Sockets |-> FreshSocket]
    /\ onlineUsers = EmptyObj
    /\ mentoriaRooms = IF program = "mentoria"
                       THEN [r \in {defaultMentoriaRoomId} |-> NewMentoriaRoom]
                       ELSE EmptyObj
    /\ rooms = EmptyObj
    /\ nextRoomId = 1
    /\ steps = 0

Next ==
    \/ Connect
    \/ MRegisterUser
    \/ MRequestJoin
    \/ MInviteUser
    \/ MAcceptInvitation
    \/ MApproveRequest
    \/ MDenyRequest
    \/ MLeaveRoom
    \/ MUserReadyForWebrtc
    \/ MWebrtcOffer
    \/ MWebrtcAnswer
    \/ MWebrtcIceCandidate
    \/ MChatMessage
    \/ MEndCall1x1
    \/ MDisconnect
    \/ ARegisterUser
    \/ ACreateRoom
    \/ AJoinRoom
    \/ ALeaveRoom
    \/ AMuteParticipant
    \/ AWebrtcOffer
    \/ AWebrtcAnswer
    \/ AWebrtcIceCandidate
    \/ AChatMessage
    \/ ARemoveParticipant
    \/ ADisconnect

Spec == Init /\ [][Next]_vars

\* A session under way: the first connection has registered as authority-
\* capable user 1, which made it the authority of the primary room, has
\* invited itself and has accepted; the other connections are still to come.
\* The session start takes one step of the budget MaxSteps.
SessionStart ==
    LET st0 == [sockets |-> [s \in Sockets |->
                                IF s = 1 THEN [FreshSocket EXCEPT !.state = "open"]
                                ELSE FreshSocket],
                onlineUsers |-> EmptyObj,
                mentoriaRooms |-> [r \in {defaultMentoriaRoomId} |-> NewMentoriaRoom],
                rooms |-> EmptyObj, emitted |-> {}, thrown |-> FALSE]
        st1 == M_register_user(st0, 1, 1, NameSeq[1], TRUE)
        st2 == M_invite_user(st1, 1, defaultMentoriaRoomId, 1)
    IN M_accept_invitation(st2, 1, defaultMentoriaRoomId, 1)

InitSession ==
    /\ program = "mentoria"
    /\ crashed = FALSE
    /\ sockets = SessionStart.sockets
    /\ onlineUsers = SessionStart.onlineUsers
    /\ mentoriaRooms = SessionStart.mentoriaRooms
    /\ rooms = EmptyObj
    /\ nextRoomId = 1
    /\ steps = 1

NextMentoria ==
    \/ Connect
    \/ MRegisterUser
    \/ MRequestJoin
    \/ MInviteUser
    \/ MAcceptInvitation
    \/ MApproveRequest
    \/ MDenyRequest
    \/ MLeaveRoom
    \/ MUserReadyForWebrtc
    \/ MWebrtcOffer
    \/ MWebrtcAnswer
    \/ MWebrtcIceCandidate
    \/ MChatMessage
    \/ MEndCall1x1
    \/ MDisconnect

SpecSession == InitSession /\ [][NextMentoria]_vars

\* ================================================================== claims
OpenSockets == {s \in Sockets : sockets[s].state = "open"}
Mentoria == program = "mentoria" /\ ~crashed
Adhoc == program = "adhoc" /\ ~crashed
Reset(st) == [st EXCEPT !.emitted = {}]

Joined(mr, r, u) == Has(mr, r) /\ Has(mr[r].participants, u)
Pending(mr, r, u) == Has(mr, r) /\ Has(mr[r].pendingRequests, u)
Invited(mr, r, u) == Has(mr, r) /\ Has(mr[r].invitedUsers, u)
Absent(mr, r, u) == ~Joined(mr, r, u) /\ ~Pending(mr, r, u) /\ ~Invited(mr, r, u)

\* the handler answered the caller with exactly one error message and nothing else
RejectedWithError(st, s) ==
    \E m \in st.emitted : st.emitted = {m} /\ m.to = s /\ m.event = "error_message"
IsAuthority(s, r) ==
    /\ Has(mentoriaRooms, r)
    /\ mentoriaRooms[r].mentorId # Null
    /\ mentoriaRooms[r].mentorId = sockets[s].userId

\* C1: for every room and every identity, the identity is in at most one of
\* the room's participants, pendingRequests and invitedUsers.
C1_AtMostOneStatus ==
    \A r \in DOMAIN mentoriaRooms : \A u \in Users :
        /\ ~(Joined(mentoriaRooms, r, u) /\ Pending(mentoriaRooms, r, u))
        /\ ~(Joined(mentoriaRooms, r, u) /\ Invited(mentoriaRooms, r, u))
        /\ ~(Pending(mentoriaRooms, r, u) /\ Invited(mentoriaRooms, r, u))

\* C2: an approve issued when the room holds no pending record for the target
\* answers the caller with an error and leaves the room's three sets as they
\* were; of an approve and a deny aimed at one pending request the first one
\* handled consumes the record and the second one fails in that same way.
C2_ApproveWithoutPendingFails ==
    Mentoria =>
        \A s \in OpenSockets, r \in MRoomInputs, t \in Users :
            /\ ~Pending(mentoriaRooms, r, t) =>
                  \A st \in {M_approve_request(Cur, s, r, t)} :
                     /\ RejectedWithError(st, s)
                     /\ st.mentoriaRooms = mentoriaRooms
                     /\ ~st.thrown
            /\ Pending(mentoriaRooms, r, t) /\ IsAuthority(s, r) /\ sockets[s].isMentor =>
                  \A a \in {M_approve_request(Cur, s, r, t)},
                     d \in {M_deny_request(Cur, s, r, t)}, s2 \in OpenSockets :
                      \A da \in {M_deny_request(Reset(a), s2, r, t)},
                         ad \in {M_approve_request(Reset(d), s2, r, t)} :
                         /\ ~Pending(a.mentoriaRooms, r, t)
                         /\ ~Pending(d.mentoriaRooms, r, t)
                         /\ RejectedWithError(da, s2)
                         /\ da.mentoriaRooms = a.mentoriaRooms
                         /\ RejectedWithError(ad, s2)
                         /\ ad.mentoriaRooms = d.mentoriaRooms

\* C2 witness: the authority can consume a pending request by approve, and a
\* deny of the same request handled afterwards is answered with an error.
C2_Witness ==
    /\ Mentoria
    /\ \E s \in OpenSockets, t \in Users :
        /\ Pending(mentoriaRooms, defaultMentoriaRoomId, t)
        /\ LET a == M_approve_request(Cur, s, defaultMentoriaRoomId, t)
               da == M_deny_request(Reset(a), s, defaultMentoriaRoomId, t)
           IN /\ Joined(a.mentoriaRooms, defaultMentoriaRoomId, t)
              /\ ~Pending(a.mentoriaRooms, defaultMentoriaRoomId, t)
              /\ RejectedWithError(da, s)

\* C3: once the authority A approves the pending request of B, B is JOINED,
\* the participant-update lists exactly the JOINED members, A among them, and
\* it is delivered to the recorded connection of every JOINED member.
C3_ApproveUpdatesAllMembers ==
    Mentoria =>
        \A s \in OpenSockets, r \in DOMAIN mentoriaRooms, t \in Users :
            /\ Pending(mentoriaRooms, r, t) /\ IsAuthority(s, r) /\ sockets[s].isMentor
            /\ IsOpen(Cur, mentoriaRooms[r].pendingRequests[t].socketId)
            /\ sockets[mentoriaRooms[r].pendingRequests[t].socketId].userId = t
            =>  LET st == M_approve_request(Cur, s, r, t)
                    members == DOMAIN st.mentoriaRooms[r].participants
                IN /\ t \in members
                   /\ sockets[s].userId \in members
                   /\ \A m \in members :
                        Msg(st.mentoriaRooms[r].participants[m].socketId,
                            "mentoria_room_participants_update", Null, members, "")
                            \in st.emitted

\* C4: requestJoin by a user who is PENDING, INVITED or JOINED in the room is
\* answered with an error and changes nothing; no notice goes to the authority.
C4_RequestJoinOnlyFromAbsent ==
    Mentoria =>
        \A s \in OpenSockets, r \in DOMAIN mentoriaRooms :
            LET u == sockets[s].userId IN
            u # Null /\ Has(onlineUsers, u) /\ ~Absent(mentoriaRooms, r, u) =>
                LET st == M_request_join(Cur, s, r)
                IN /\ RejectedWithError(st, s)
                   /\ st.mentoriaRooms = mentoriaRooms

JoinNotices(st) == {m \in st.emitted : m.event = "mentoria_join_request_to_mentor"}

C6_AcceptInvitation ==
    Mentoria =>
        \A s \in OpenSockets, r \in {defaultMentoriaRoomId, UnknownRoomId}, i \in UserInputs :
            LET u == sockets[s].userId
                st == M_accept_invitation(Cur, s, r, i) IN
            u # Null =>
                IF Invited(mentoriaRooms, r, u) /\ mentoriaRooms[r].invitedUsers[u] = i
                THEN /\ ~Invited(st.mentoriaRooms, r, u)
                     /\ Joined(st.mentoriaRooms, r, u)
                     /\ st.mentoriaRooms[r].pendingRequests = mentoriaRooms[r].pendingRequests
                ELSE /\ RejectedWithError(st, s)
                     /\ st.mentoriaRooms = mentoriaRooms

\* C7: invite, approve and deny (and mute and forced removal in the ad-hoc
\* server) issued on a room whose authority/owner is not the caller, or that
\* has no authority, are answered with one error message to the caller and
\* change no state and notify nobody else.
C7_OnlyAuthorityActs ==
    /\ Mentoria =>
        \A s \in OpenSockets, r \in MRoomInputs, t \in UserInputs :
            ~IsAuthority(s, r) =>
                \A st \in {M_invite_user(Cur, s, r, t), M_approve_request(Cur, s, r, t),
                           M_deny_request(Cur, s, r, t)} :
                    /\ RejectedWithError(st, s)
                    /\ st.mentoriaRooms = mentoriaRooms
                    /\ st.sockets = sockets /\ st.onlineUsers = onlineUsers /\ ~st.thrown
    /\ Adhoc =>
        \A s \in OpenSockets, r \in ARoomInputs, t \in UserInputs :
            ~(Has(rooms, r) /\ rooms[r].ownerId = sockets[s].userId) =>
                \A st \in {A_mute_participant(Cur, s, r, t), A_remove_participant(Cur, s, r, t)} :
                    /\ RejectedWithError(st, s)
                    /\ st.rooms = rooms
                    /\ st.sockets = sockets /\ st.onlineUsers = onlineUsers /\ ~st.thrown

\* C7 witness: a connection registered as authority-capable under an identity
\* that is not the room's authority faces a pending request it may not approve.
C7_Witness ==
    /\ Mentoria
    /\ \E s \in OpenSockets, t \in Users :
        /\ sockets[s].isMentor /\ sockets[s].userId # Null
        /\ ~IsAuthority(s, defaultMentoriaRoomId)
        /\ Has(onlineUsers, t)
        /\ Pending(mentoriaRooms, defaultMentoriaRoomId, t)
        /\ RejectedWithError(M_approve_request(Cur, s, defaultMentoriaRoomId, t), s)
        /\ RejectedWithError(M_invite_user(Cur, s, defaultMentoriaRoomId, t), s)

\* C8: admit applied to a user who is already JOINED changes nothing and emits
\* nothing: the membership set keeps its one entry for the user, no connection
\* is tagged, and neither a participant-update nor a status notice is sent;
\* this holds for the helper itself and on the two paths that reach it with a
\* JOINED user (accepting a further invitation, approving a leftover request).
C8_AdmitIdempotent ==
    Mentoria =>
        \A s \in OpenSockets, r \in DOMAIN mentoriaRooms :
            LET u == sockets[s].userId IN
            /\ u # Null /\ Joined(mentoriaRooms, r, u) =>
                  \A n \in DisplayNames, js \in {"approved", "invited_joined"} :
                      addUserToMentoriaRoom(Cur, s, r, n, js) = Cur
            /\ u # Null /\ Joined(mentoriaRooms, r, u) /\ Has(onlineUsers, u)
               /\ Invited(mentoriaRooms, r, u) =>
                  LET st == M_accept_invitation(Cur, s, r, mentoriaRooms[r].invitedUsers[u])
                  IN /\ st.mentoriaRooms[r].participants = mentoriaRooms[r].participants
                     /\ st.sockets = sockets
                     /\ st.emitted = {}
            /\ \A a \in OpenSockets, t \in Users :
                  /\ IsAuthority(a, r) /\ sockets[a].isMentor
                  /\ Pending(mentoriaRooms, r, t)
                  /\ mentoriaRooms[r].pendingRequests[t].socketId = s
                  /\ u # Null /\ Joined(mentoriaRooms, r, u)
                  =>  LET st == M_approve_request(Cur, a, r, t)
                      IN /\ st.mentoriaRooms[r].participants = mentoriaRooms[r].participants
                         /\ st.sockets = sockets
                         /\ st.emitted = {}

\* C8 witness: a JOINED user holds a further invitation, and accepting it
\* reaches admit, which removes the invitation and does nothing else.
C8_Witness ==
    /\ Mentoria
    /\ \E s \in OpenSockets :
        LET u == sockets[s].userId
            r == defaultMentoriaRoomId IN
        /\ u # Null /\ Has(onlineUsers, u)
        /\ Joined(mentoriaRooms, r, u) /\ Invited(mentoriaRooms, r, u)
        /\ LET st == M_accept_invitation(Cur, s, r, mentoriaRooms[r].invitedUsers[u])
           IN ~Invited(st.mentoriaRooms, r, u) /\ st.emitted = {}

\* C9: a step that takes the last member out of an ad-hoc room removes the
\* room from the registry in that same step; the primary room is never
\* removed from the registry, also when its membership set is empty.
C9_EmptyAdhocRoomRemoved ==
    [][/\ \A r \in DOMAIN rooms :
            DOMAIN rooms[r].participants # {} /\ Has(rooms', r)
                => DOMAIN rooms'[r].participants # {}
       /\ Has(mentoriaRooms, defaultMentoriaRoomId)
            => Has(mentoriaRooms', defaultMentoriaRoomId)]_vars

\* C9 witness: the first ad-hoc room was created, its creator joined it, and
\* the room is gone from the registry again.
C9_Witness ==
    /\ Adhoc
    /\ nextRoomId > 1
    /\ ~Has(rooms, 1)
    /\ \E s \in Sockets : sockets[s].userId # Null /\ sockets[s].currentRoomId = Null

\* C10: each room's authority is unset or the identity of a user currently in
\* the Directory as authority-capable.
C10_AuthorityIsRegisteredMentor ==
    \A r \in DOMAIN mentoriaRooms :
        \/ mentoriaRooms[r].mentorId = Null
        \/ /\ Has(onlineUsers, mentoriaRooms[r].mentorId)
           /\ onlineUsers[mentoriaRooms[r].mentorId].isMentor

\* C11: every identity in the membership set of a room of either server has a
\* Directory entry, and the connection that entry records is connected.
C11_MembersAreOnline ==
    /\ \A r \in DOMAIN mentoriaRooms : \A u \in DOMAIN mentoriaRooms[r].participants :
          Has(onlineUsers, u) /\ IsOpen(Cur, onlineUsers[u].socketId)
    /\ \A r \in DOMAIN rooms : \A u \in DOMAIN rooms[r].participants :
          Has(onlineUsers, u) /\ IsOpen(Cur, onlineUsers[u].socketId)

\* C12: in the ad-hoc server every identity is in the membership set of at
\* most one room, and the Directory's currentRoomId of an identity is that
\* room, or null when the identity is a member of no room.
C12_CurrentRoomIsTheOneRoom ==
    Adhoc =>
        \A u \in Users :
            LET memberOf == {r \in DOMAIN rooms : Has(rooms[r].participants, u)} IN
            /\ Cardinality(memberOf) <= 1
            /\ Has(onlineUsers, u) =>
                  IF memberOf = {}
                  THEN onlineUsers[u].currentRoomId = Null
                  ELSE onlineUsers[u].currentRoomId \in memberOf

PresenceUpdates(st) == {m \in st.emitted : m.event = "presence_update"}

\* C13: a registration under an identity that the Directory binds to another
\* connection rebinds the identity to the registering connection, adds no
\* entry and removes none, and its presence snapshot goes to every connected
\* client and lists exactly the identities of the Directory, each once.
C13_LastRegistrationWins ==
    ~crashed =>
        \A s \in OpenSockets, u \in DOMAIN onlineUsers, n \in DisplayNames :
            onlineUsers[u].socketId # s =>
                \A st \in IF program = "mentoria"
                          THEN {M_register_user(Cur, s, u, n, b) : b \in BOOLEAN}
                          ELSE {A_register_user(Cur, s, u, n)} :
                    /\ st.onlineUsers[u].socketId = s
                    /\ st.onlineUsers[u].displayName = n
                    /\ DOMAIN st.onlineUsers = DOMAIN onlineUsers
                    /\ \A v \in DOMAIN onlineUsers \ {u} : st.onlineUsers[v] = onlineUsers[v]
                    /\ PresenceUpdates(st) =
                          {Msg(c, "presence_update", Null, DOMAIN st.onlineUsers, "") :
                              c \in OpenSockets}
                    /\ ~st.thrown

\* C13 witness: an identity bound to one connected connection is registered
\* from another connected connection, which takes the binding over.
C13_Witness ==
    /\ ~crashed
    /\ \E s \in OpenSockets, c \in OpenSockets, u \in DOMAIN onlineUsers :
        /\ c # s /\ onlineUsers[u].socketId = c /\ sockets[c].userId = u
        /\ LET st == IF program = "mentoria"
                     THEN M_register_user(Cur, s, u, onlineUsers[u].displayName, FALSE)
                     ELSE A_register_user(Cur, s, u, onlineUsers[u].displayName)
           IN /\ st.onlineUsers[u].socketId = s
              /\ Cardinality(PresenceUpdates(st)) >= 2

\* C14: after the disconnect of a connection bound to an identity, the
\* identity is in no room's membership set and not in the Directory, and the
\* presence snapshot sent by the handler does not list it.
C14_DisconnectCleansUp ==
    ~crashed =>
        \A s \in OpenSockets :
            LET u == sockets[s].userId IN
            u # Null =>
                \A st \in IF program = "mentoria"
                          THEN {M_disconnect(Cur, s)} ELSE {A_disconnect(Cur, s)} :
                    /\ \A r \in DOMAIN st.mentoriaRooms :
                          ~Has(st.mentoriaRooms[r].participants, u)
                    /\ \A r \in DOMAIN st.rooms : ~Has(st.rooms[r].participants, u)
                    /\ ~Has(st.onlineUsers, u)
                    /\ \A m \in PresenceUpdates(st) : u \notin m.users

\* what the four relay handlers of the mentoria server do with one message
MRelayed(s, targetUserId, payload) ==
    {M_webrtc_offer(Cur, s, targetUserId, payload),
     M_webrtc_answer(Cur, s, targetUserId, payload),
     M_webrtc_ice_candidate(Cur, s, targetUserId, payload),
     M_end_call_1x1(Cur, s, targetUserId)}
Untouched(st) ==
    /\ st.sockets = sockets /\ st.onlineUsers = onlineUsers
    /\ st.mentoriaRooms = mentoriaRooms /\ st.rooms = rooms /\ ~st.thrown

C16_DisconnectKeepsRequests ==
    [][/\ (\E s \in Sockets : sockets[s].state = "open" /\ sockets'[s].state = "closed")
          => \A r \in DOMAIN mentoriaRooms :
                /\ mentoriaRooms'[r].pendingRequests = mentoriaRooms[r].pendingRequests
                /\ mentoriaRooms'[r].invitedUsers = mentoriaRooms[r].invitedUsers
       /\ (\E r \in DOMAIN mentoriaRooms :
              \/ ~(DOMAIN mentoriaRooms[r].pendingRequests
                      \subseteq DOMAIN mentoriaRooms'[r].pendingRequests)
              \/ ~(DOMAIN mentoriaRooms[r].invitedUsers
                      \subseteq DOMAIN mentoriaRooms'[r].invitedUsers))
          => \E s \in OpenSockets, r \in DOMAIN mentoriaRooms, t \in Users :
                mentoriaRooms' \in {M_approve_request(Cur, s, r, t).mentoriaRooms,
                                    M_deny_request(Cur, s, r, t).mentoriaRooms,
                                    M_accept_invitation(Cur, s, r, t).mentoriaRooms}]_vars

\* C16 witness: an identity whose only connection has closed, and which is no
\* longer in the Directory, still has its pending request in the room.
C16_Witness ==
    /\ Mentoria
    /\ \E c \in Sockets, t \in Users :
        /\ sockets[c].state = "closed" /\ sockets[c].userId = t
        /\ ~Has(onlineUsers, t)
        /\ \A x \in Sockets : x # c => sockets[x].userId # t
        /\ Pending(mentoriaRooms, defaultMentoriaRoomId, t)
        /\ mentoriaRooms[defaultMentoriaRoomId].pendingRequests[t].socketId = c

AJoined(rm, r, u) == Has(rm, r) /\ Has(rm[r].participants, u)

\* C17: a chat message changes no state; sent by a connection whose identity
\* is not JOINED in the room it reaches nobody, and otherwise every connection
\* it reaches is the connection of an identity that is JOINED in the room.
C17_ChatOnlyAmongJoined ==
    /\ Mentoria =>
        \A s \in OpenSockets, r \in MRoomInputs :
            \A st \in {M_chat_message(Cur, s, r, "payload")} :
                /\ Untouched(st)
                /\ ~Joined(mentoriaRooms, r, sockets[s].userId) => st.emitted = {}
                /\ \A m \in st.emitted :
                      m.event = "chat_message"
                      /\ Joined(mentoriaRooms, r, sockets[m.to].userId)
    /\ Adhoc =>
        \A s \in OpenSockets, r \in ARoomInputs :
            \A st \in {A_chat_message(Cur, s, r, "payload")} :
                /\ Untouched(st)
                /\ ~AJoined(rooms, r, sockets[s].userId) => st.emitted = {}
                /\ \A m \in st.emitted :
                      m.event = "chat_message"
                      /\ AJoined(rooms, r, sockets[m.to].userId)

Notices(st) == {m \in st.emitted : m.event = "mentoria_initiate_webrtc_with_peer"}
OtherJoined(r, u) == {m \in DOMAIN mentoriaRooms[r].participants : m # u}

Full(r) == Cardinality(DOMAIN rooms[r].participants) >= RoomCapacity

C20_UserCanReenter ==
    Mentoria =>
        \A s \in OpenSockets, a \in OpenSockets, r \in DOMAIN mentoriaRooms :
            LET u == sockets[s].userId
                Reenters(st0) ==
                    \A rq \in {M_request_join(Reset(st0), s, r)} :
                    \A ap \in {M_approve_request(Reset(rq), a, r, u)},
                       iv \in {M_invite_user(Reset(st0), a, r, u)} :
                    \A ac \in {M_accept_invitation(Reset(iv), s, r, sockets[a].userId)} :
                        /\ Pending(rq.mentoriaRooms, r, u)
                        /\ Msg(s, "mentoria_access_status", Null, {}, "pending_approval")
                              \in rq.emitted
                        /\ Joined(ap.mentoriaRooms, r, u) /\ ~ap.thrown
                        /\ Msg(s, "mentoria_access_status", Null, {}, "approved")
                              \in ap.emitted
                        /\ Invited(iv.mentoriaRooms, r, u)
                        /\ Joined(ac.mentoriaRooms, r, u) /\ ~ac.thrown
                        /\ Msg(s, "mentoria_access_status", Null, {}, "invited_joined")
                              \in ac.emitted
            IN /\ u # Null /\ Has(onlineUsers, u)
               /\ IsAuthority(a, r) /\ sockets[a].isMentor
               /\ Has(onlineUsers, sockets[a].userId)
               => /\ Pending(mentoriaRooms, r, u) /\ ~Joined(mentoriaRooms, r, u)
                     => \A d \in {M_deny_request(Cur, a, r, u)} :
                           ~Pending(d.mentoriaRooms, r, u) /\ Reenters(d)
                  /\ Joined(mentoriaRooms, r, u)
                     => \A l \in {M_leave_room(Cur, s, r)} :
                           ~Joined(l.mentoriaRooms, r, u) /\ Reenters(l)

\* C20 witness: a JOINED user on a connected connection, with the authority
\* connected on another one, leaves, asks again, is denied, asks once more and
\* is approved: the user is ABSENT after the leave and after the deny, and
\* JOINED at the end.
C20_Witness ==
    /\ Mentoria
    /\ \E s \in OpenSockets, a \in OpenSockets :
        LET u == sockets[s].userId
            r == defaultMentoriaRoomId IN
        /\ a # s /\ u # Null /\ Has(onlineUsers, u) /\ u # sockets[a].userId
        /\ IsAuthority(a, r) /\ sockets[a].isMentor /\ Has(onlineUsers, sockets[a].userId)
        /\ Joined(mentoriaRooms, r, u)
        /\ LET l == M_leave_room(Cur, s, r)
               rq == M_request_join(Reset(l), s, r)
               d == M_deny_request(Reset(rq), a, r, u)
               rq2 == M_request_join(Reset(d), s, r)
               ap == M_approve_request(Reset(rq2), a, r, u)
           IN /\ Absent(l.mentoriaRooms, r, u)
              /\ Pending(rq.mentoriaRooms, r, u)
              /\ Absent(d.mentoriaRooms, r, u)
              /\ Pending(rq2.mentoriaRooms, r, u)
              /\ Joined(ap.mentoriaRooms, r, u)

\* C21: when an identity is registered from two connections and the one the
\* Directory records is still connected, the disconnect of the other one
\* leaves the identity's Directory entry and its room memberships in place.
C21_SupersededDisconnectKeepsRegistration ==
    ~crashed =>
        \A s \in OpenSockets :
            LET u == sockets[s].userId IN
            /\ u # Null /\ Has(onlineUsers, u)
            /\ onlineUsers[u].socketId # s
            /\ IsOpen(Cur, onlineUsers[u].socketId)
            =>  \A st \in IF program = "mentoria"
                          THEN {M_disconnect(Cur, s)} ELSE {A_disconnect(Cur, s)} :
                    /\ Has(st.onlineUsers, u)
                    /\ \A r \in DOMAIN mentoriaRooms :
                          Joined(mentoriaRooms, r, u) => Joined(st.mentoriaRooms, r, u)
                    /\ \A r \in DOMAIN rooms :
                          Has(rooms[r].participants, u) =>
                              Has(st.rooms, r) /\ Has(st.rooms[r].participants, u)

\* C22: whenever approve removes a pending record, the target of the approve
\* is JOINED in that room when the handler ends.
C22_ApproveAdmitsWhatItConsumes ==
    Mentoria =>
        \A s \in OpenSockets, r \in DOMAIN mentoriaRooms, t \in Users :
            Pending(mentoriaRooms, r, t) =>
                \A st \in {M_approve_request(Cur, s, r, t)} :
                    ~Pending(st.mentoriaRooms, r, t) => Joined(st.mentoriaRooms, r, t)

RecordedMember(s, r) ==
    LET u == sockets[s].userId IN
    IF program = "mentoria"
    THEN /\ Joined(mentoriaRooms, r, u)
         /\ mentoriaRooms[r].participants[u].socketId = s
    ELSE /\ Has(rooms, r) /\ Has(rooms[r].participants, u)
         /\ rooms[r].participants[u] = s

\* C23: after every event, a connection is tagged with a room at the transport
\* level if and only if the room's membership set holds an entry for the
\* connection's identity that records that same connection.
C23_TaggedIffRecordedMember ==
    ~crashed =>
        \A s \in Sockets :
            \A r \in DOMAIN mentoriaRooms \cup DOMAIN rooms \cup sockets[s].rooms :
                r \in sockets[s].rooms <=> RecordedMember(s, r)

\* C24: in the ad-hoc server, after every event handler every room of the
\* registry has at least one member.
C24_NoEmptyRoomInRegistry ==
    Adhoc => \A r \in DOMAIN rooms : DOMAIN rooms[r].participants # {}
====
